---- MODULE Spec2Model ----
(***************************************************************************)
(* Model of basic_back.py, the "Dynamic Riyaz Player": the swar mapping of *)
(* a raga, the five pattern functions, the three-octave replication, the   *)
(* playback loop that drives the synthesizer, and the interactive main     *)
(* routine that chains them and starts the playback thread.                *)
(*                                                                         *)
(* Python strings are sequences of one-character strings, so that          *)
(* str.split and str.strip are computed, not assumed.  Python lists are    *)
(* sequences; a 0-based index k is position k + 1.                         *)
(***************************************************************************)
EXTENDS Integers, Sequences, FiniteSets, TLC

VARIABLES
    pc,               \* position of main()
    raga_name,        \* main: input line 243
    sa,               \* main: input line 244
    pattern_option,   \* main: input line 245
    tempo,            \* main: input line 246 (worker argument)
    key_map,          \* contents of the Excel key sheet (Western -> Midi Key)
    user_sa,          \* main: key_map[sa] (worker argument current_sa)
    aroha,            \* raga_info['Aroha']
    avaroha,          \* raga_info['Avaroha']
    swar_set,         \* swar_df['Swar']
    midi_values,      \* swar_df['MIDI Value']
    base_sequence,    \* main: line 287
    dynamic_sequence, \* main: line 288 (worker argument sequence)
    out,              \* lines printed by main, and the traceback of an uncaught exception
    wpc,              \* position of the playback worker
    idx,              \* worker: position of the for loop in the sequence (1-based)
    trace,            \* worker: calls made on the synthesizer and time.sleep holds, in order
    log               \* worker: the "Playing MIDI note" lines printed

vars == <<pc, raga_name, sa, pattern_option, tempo, key_map, user_sa, aroha, avaroha,
          swar_set, midi_values, base_sequence, dynamic_sequence, out, wpc, idx, trace, log>>

mainInputs == <<raga_name, sa, pattern_option, tempo>>
ragaVars   == <<aroha, avaroha>>
swarVars   == <<swar_set, midi_values>>
seqVars    == <<base_sequence, dynamic_sequence>>
workerVars == <<wpc, idx, trace, log>>

(***************************************************************************)
(* Bounds of the model.                                                    *)
(***************************************************************************)
MaxDeg == 7     \* longest degree list handed to a pattern function on its own
MaxSeq == 3     \* longest sequence handed to the replicator / the playback loop on its own
MaxStr == 3     \* longest phrase string handed to create_swar_mapping on its own

(***************************************************************************)
(* Sequence helpers (Python list operations).                              *)
(***************************************************************************)
Range(s) == {s[i] : i \in 1..Len(s)}

Reverse(s) == [i \in 1..Len(s) |-> s[Len(s) + 1 - i]]

RECURSIVE Flatten(_)
Flatten(ss) == IF ss = <<>> THEN <<>> ELSE Head(ss) \o Flatten(Tail(ss))

SeqsUpTo(S, n) == UNION {[1..k -> S] : k \in 0..n}

(***************************************************************************)
(* str.split('-') and str.strip()                                          *)
(***************************************************************************)
Whitespace == {" "}

RECURSIVE PySplit(_)
PySplit(s) ==
    IF \A i \in 1..Len(s) : s[i] # "-"
    THEN <<s>>
    ELSE LET k == CHOOSE i \in 1..Len(s) :
                      s[i] = "-" /\ \A j \in 1..(i - 1) : s[j] # "-"
         IN  <<SubSeq(s, 1, k - 1)>> \o PySplit(SubSeq(s, k + 1, Len(s)))

RECURSIVE PyStrip(_)
PyStrip(s) ==
    IF s = <<>> THEN s
    ELSE IF s[1] \in Whitespace THEN PyStrip(Tail(s))
    ELSE IF s[Len(s)] \in Whitespace THEN PyStrip(SubSeq(s, 1, Len(s) - 1))
    ELSE s

\* list(dict.fromkeys(xs)): the distinct elements in order of first occurrence
RECURSIVE FromKeys(_, _)
FromKeys(xs, acc) ==
    IF xs = <<>> THEN acc
    ELSE IF Head(xs) \in Range(acc) THEN FromKeys(Tail(xs), acc)
    ELSE FromKeys(Tail(xs), Append(acc, Head(xs)))

(***************************************************************************)
(* create_swar_mapping: the 'Swar' and 'MIDI Value' columns.               *)
(***************************************************************************)
SwarTokens(aro, ava) == PySplit(aro) \o PySplit(ava)

SwarSet(aro, ava) == FromKeys(SwarTokens(aro, ava), <<>>)

MidiValues(swars, base_sa) == [i \in 1..Len(swars) |-> base_sa + (i - 1)]

(***************************************************************************)
(* DataFrame.iloc[k] and list[k] for a 0-based index k.  iloc is only used *)
(* with k in 0..n-1.  A plain list index accepts -n..n-1 and raises        *)
(* IndexError outside that range.                                          *)
(***************************************************************************)
iloc(v, k) == v[k + 1]

ListIndexOK(v, k) == (0 - Len(v)) <= k /\ k < Len(v)

ListItem(v, k) == IF k < 0 THEN v[Len(v) + k + 1] ELSE v[k + 1]

(***************************************************************************)
(* The five pattern functions.  v is swar_df['MIDI Value'].tolist().       *)
(***************************************************************************)
\* mutant: the ascent does not close on the first degree
pattern_option_1_open(v) ==
    LET ascending  == v
        descending == <<iloc(v, 0)>> \o Reverse(v)
    IN  ascending \o descending

pattern_option_1(v) ==
    LET ascending  == v \o <<iloc(v, 0)>>
        descending == <<iloc(v, 0)>> \o Reverse(v)
    IN  ascending \o descending

Twice(v) == Flatten([i \in 1..Len(v) |-> <<v[i], v[i]>>])

pattern_option_2(v) ==
    LET asc  == Twice(v) \o <<iloc(v, 0), iloc(v, 0)>>
        desc == <<iloc(v, 0), iloc(v, 0)>> \o Twice(Reverse(v))
    IN  asc \o desc

pattern_option_3(v) ==
    LET n == Len(v)
        asc_groups  == Flatten([i \in 1..(n - 1) |->
                          [j \in 1..4 |-> iloc(v, ((i - 1) + (j - 1)) % n)] \o <<0>>])
        desc_groups == Flatten([i \in 1..(n - 1) |->
                          [j \in 1..4 |-> iloc(v, ((i - 1) - (j - 1)) % n)] \o <<-1>>])
    IN  asc_groups \o desc_groups

pattern_option_4(v) ==
    LET n == Len(v)
        asc  == Flatten([i \in 1..(n - 1) |->
                   [j \in 1..4 |-> iloc(v, ((i - 1) + (j - 1)) % n)]])
        desc == Flatten([i \in 1..(n - 1) |->
                   [j \in 1..4 |-> iloc(v, ((0 - (i - 1)) - (j - 1)) % n)]])
    IN  asc \o <<-1>> \o desc

generate_group(X, Y, Z) == <<X, Y, X, Y, Z, -1>>

\* line 128 indexes the list with i itself, not with i % n
pattern_option_5_raises(swars) == \E i \in 0..3 : ~ListIndexOK(swars, i)

\* mutant: the third segment walks forwards (i instead of -i)
pattern_option_5_forward(swars) ==
    LET n == Len(swars)
        seg1 == Flatten([k \in 1..4 |->
                   LET i == k - 1
                   IN  generate_group(ListItem(swars, i),
                                      ListItem(swars, (i + 1) % n),
                                      ListItem(swars, (i + 2) % n))])
        seg2 == Flatten([k \in 1..2 |->
                   LET i == k - 1
                   IN  generate_group(ListItem(swars, (4 + i) % n),
                                      ListItem(swars, (4 + i + 1) % n),
                                      ListItem(swars, (4 + i + 2) % n))])
        seg3 == Flatten([k \in 1..6 |->
                   LET i == k - 1
                   IN  generate_group(ListItem(swars, i % n),
                                      ListItem(swars, (i + 1) % n),
                                      ListItem(swars, (i + 2) % n))])
    IN  seg1 \o <<-99>> \o seg2 \o <<-99>> \o seg3

pattern_option_5(swars) ==
    LET n == Len(swars)
        seg1 == Flatten([k \in 1..4 |->
                   LET i == k - 1
                   IN  generate_group(ListItem(swars, i),
                                      ListItem(swars, (i + 1) % n),
                                      ListItem(swars, (i + 2) % n))])
        seg2 == Flatten([k \in 1..2 |->
                   LET i == k - 1
                   IN  generate_group(ListItem(swars, (4 + i) % n),
                                      ListItem(swars, (4 + i + 1) % n),
                                      ListItem(swars, (4 + i + 2) % n))])
        seg3 == Flatten([k \in 1..6 |->
                   LET i == k - 1
                   IN  generate_group(ListItem(swars, (0 - i) % n),
                                      ListItem(swars, (0 - i - 1) % n),
                                      ListItem(swars, (0 - i - 2) % n))])
    IN  seg1 \o <<-99>> \o seg2 \o <<-99>> \o seg3

\* the keys of the pattern_functions dispatch table
PatternNames == {"Aroha & Avroha", "SA SA RE RE GA GA", "SA RE GA - RE GA MA",
                 "SA RE GA MA RE GA MA PA", "SA RE SA RE GA"}

PatternRaises(name, v) == name = "SA RE SA RE GA" /\ pattern_option_5_raises(v)

pattern_functions(name, v) ==
    CASE name = "Aroha & Avroha"          -> pattern_option_1(v)
      [] name = "SA SA RE RE GA GA"       -> pattern_option_2(v)
      [] name = "SA RE GA - RE GA MA"     -> pattern_option_3(v)
      [] name = "SA RE GA MA RE GA MA PA" -> pattern_option_4(v)
      [] name = "SA RE SA RE GA"          -> pattern_option_5(v)

(***************************************************************************)
(* build_dynamic_playback_sequence                                         *)
(***************************************************************************)
\* mutant: pitch 0 is taken for a marker (> 0 instead of >= 0)
build_dynamic_playback_sequence_strict(base) ==
    LET higher == [i \in 1..Len(base) |-> IF base[i] > 0 THEN base[i] + 12 ELSE base[i]]
        lower  == [i \in 1..Len(base) |-> IF base[i] > 0 THEN base[i] - 12 ELSE base[i]]
    IN  base \o higher \o lower

build_dynamic_playback_sequence(base) ==
    LET higher == [i \in 1..Len(base) |-> IF base[i] >= 0 THEN base[i] + 12 ELSE base[i]]
        lower  == [i \in 1..Len(base) |-> IF base[i] >= 0 THEN base[i] - 12 ELSE base[i]]
    IN  base \o higher \o lower

(***************************************************************************)
(* The data files, which main() only reads: the key sheet is drawn in Init *)
(* from the maps KeyNames -> SaValues; the raga table of the CSV file and  *)
(* the raga sheet of the Excel file are the small tables below.            *)
(***************************************************************************)
KeyNames == {"C", "C#"}
SaValues == {0, 60}

RagaCsv == {"Bhupali", "Tiny", "Yaman"}

RagaSheet ==
    [r \in {"Bhupali", "Tiny"} |->
        IF r = "Bhupali"
        THEN [Aroha   |-> <<"S", "-", "R", "-", "G", "-", "P", "-", "D", "-", "S", "'">>,
              Avaroha |-> <<"S", "'", "-", "D", "-", "P", "-", "G", "-", "R", "-", "S">>]
        ELSE [Aroha   |-> <<"S", "-", "R", "-", "G">>,
              Avaroha |-> <<"G", "-", "R", "-", "S">>]]

\* what the user may type at the four prompts
RagaInputs    == RagaCsv \cup {"Unknown"}
SaInputs      == KeyNames \cup {"H"}
PatternInputs == PatternNames \cup {"Bogus"}
TempoInputs   == {-60, 0, 120}

(***************************************************************************)
(* main(), lines 239-303.  A return after a printed message ends at        *)
(* pc = "returned"; an exception nobody catches ends at pc = "crashed"     *)
(* with the exception's name as the last line of out.                      *)
(***************************************************************************)
Return(msg) ==
    /\ pc' = "returned"
    /\ out' = Append(out, msg)

Crash(exc) ==
    /\ pc' = "crashed"
    /\ out' = Append(out, exc)

\* lines 240-246: the welcome line and the four prompts; int() raises on a non-number
ReadInputs ==
    /\ pc = "input"
    /\ \E r \in RagaInputs, s \in SaInputs, p \in PatternInputs :
          /\ raga_name' = r
          /\ sa' = s
          /\ pattern_option' = p
    /\ \/ /\ \E t \in TempoInputs : tempo' = t
          /\ pc' = "load"
          /\ out' = Append(out, "Welcome to the Dynamic Riyaz Player!")
       \/ /\ tempo' = tempo
          /\ pc' = "crashed"
          /\ out' = out \o <<"Welcome to the Dynamic Riyaz Player!", "ValueError">>
    /\ UNCHANGED <<key_map, user_sa, ragaVars, swarVars, seqVars, workerVars>>

\* lines 249-254: read the CSV file and the raga sheet
LoadData ==
    /\ pc = "load"
    /\ \/ /\ pc' = "keymap"
          /\ out' = out
       \/ Return("Error loading database or Excel file")
    /\ UNCHANGED <<mainInputs, key_map, user_sa, ragaVars, swarVars, seqVars, workerVars>>

\* lines 257-265: the key mapping for Sa
ResolveSa ==
    /\ pc = "keymap"
    /\ \/ /\ sa \in DOMAIN key_map
          /\ user_sa' = key_map[sa]
          /\ pc' = "validate"
          /\ out' = out
       \/ /\ sa \notin DOMAIN key_map
          /\ Return("Invalid Sa note provided. Please check the Excel key mapping.")
          /\ user_sa' = user_sa
       \/ /\ Return("load_key_mapping failed")
          /\ user_sa' = user_sa
    /\ UNCHANGED <<mainInputs, key_map, ragaVars, swarVars, seqVars, workerVars>>

\* lines 268-273: validate the raga name against the CSV table
ValidateRaga ==
    /\ pc = "validate"
    /\ IF raga_name \in RagaCsv
       THEN /\ pc' = "info"
            /\ out' = Append(out, "df.columns")
       ELSE /\ pc' = "returned"
            /\ out' = out \o <<"df.columns", "Raga not found in the database.">>
    /\ UNCHANGED <<mainInputs, key_map, user_sa, ragaVars, swarVars, seqVars, workerVars>>

\* lines 276-280: the raga's row of the Excel sheet
GetRagaInfo ==
    /\ pc = "info"
    /\ IF raga_name \in DOMAIN RagaSheet
       THEN /\ aroha' = RagaSheet[raga_name].Aroha
            /\ avaroha' = RagaSheet[raga_name].Avaroha
            /\ pc' = "swar"
            /\ out' = out
       ELSE /\ Return("Raga not found in Excel")
            /\ UNCHANGED ragaVars
    /\ UNCHANGED <<mainInputs, key_map, user_sa, swarVars, seqVars, workerVars>>

\* line 283, create_swar_mapping (lines 70-77)
CreateSwarMapping ==
    /\ pc = "swar"
    /\ swar_set' = SwarSet(aroha, avaroha)
    /\ midi_values' = MidiValues(SwarSet(aroha, avaroha), user_sa)
    /\ pc' = "pattern"
    /\ UNCHANGED <<mainInputs, key_map, user_sa, ragaVars, seqVars, out, workerVars>>

\* mutant: an unknown pattern name falls back to the first pattern
SelectPattern_default ==
    /\ pc = "pattern"
    /\ IF PatternRaises(pattern_option, midi_values)
       THEN /\ Crash("IndexError")
            /\ UNCHANGED base_sequence
       ELSE /\ base_sequence' = IF pattern_option \in PatternNames
                                THEN pattern_functions(pattern_option, midi_values)
                                ELSE pattern_option_1(midi_values)
            /\ pc' = "build"
            /\ out' = out
    /\ UNCHANGED <<mainInputs, key_map, user_sa, ragaVars, swarVars, dynamic_sequence,
                   workerVars>>

\* lines 284-287: look the pattern up and apply it
SelectPattern ==
    /\ pc = "pattern"
    /\ IF pattern_option \notin PatternNames
       THEN /\ Return("Invalid pattern option provided.")
            /\ UNCHANGED base_sequence
       ELSE IF PatternRaises(pattern_option, midi_values)
       THEN /\ Crash("IndexError")
            /\ UNCHANGED base_sequence
       ELSE /\ base_sequence' = pattern_functions(pattern_option, midi_values)
            /\ pc' = "build"
            /\ out' = out
    /\ UNCHANGED <<mainInputs, key_map, user_sa, ragaVars, swarVars, dynamic_sequence,
                   workerVars>>

\* line 288
BuildDynamic ==
    /\ pc = "build"
    /\ dynamic_sequence' = build_dynamic_playback_sequence(base_sequence)
    /\ pc' = "spawn"
    /\ UNCHANGED <<mainInputs, key_map, user_sa, ragaVars, swarVars, base_sequence, out,
                   workerVars>>

\* lines 297-298: start the daemon thread on play_raga_sequence
StartPlayback ==
    /\ pc = "spawn"
    /\ wpc' = "setup"
    /\ pc' = "announce"
    /\ UNCHANGED <<mainInputs, key_map, user_sa, ragaVars, swarVars, seqVars, out,
                   idx, trace, log>>

\* line 300, then the endless sleep loop of lines 302-303
Announce ==
    /\ pc = "announce"
    /\ out' = Append(out, "Playing ...")
    /\ pc' = "idle"
    /\ UNCHANGED <<mainInputs, key_map, user_sa, ragaVars, swarVars, seqVars, workerVars>>

(***************************************************************************)
(* The playback worker: play_raga_sequence (190-196) calling               *)
(* play_sequence_dynamic (165-187) with sequence = dynamic_sequence,       *)
(* tempo = tempo, current_sa = user_sa.  trace records, in order, every    *)
(* call on the synthesizer and every time.sleep.  60 / tempo is kept as    *)
(* the exact fraction <<60, tempo>>.                                       *)
(***************************************************************************)
NoteOnEv(n)  == <<"noteon", 0, n, 100>>
NoteOffEv(n) == <<"noteoff", 0, n>>
SleepEv(t)   == <<"sleep", 60, t>>

\* mutant: pitch 0 is taken for a separator (<= 0 instead of < 0)
IsSilence_inclusive(midi_note) == midi_note <= 0

IsSilence(midi_note) == midi_note < 0

OctaveLabel(midi_note, current_sa) ==
    IF midi_note < current_sa THEN "S1"
    ELSE IF midi_note < current_sa + 12 THEN "S2"
    ELSE "S3"

mainVars == <<pc, mainInputs, key_map, user_sa, ragaVars, swarVars, seqVars, out>>

\* lines 191-195: create the synthesizer, load the soundfont, select the program
SynthSetup ==
    /\ wpc = "setup"
    /\ wpc' = "duration"
    /\ UNCHANGED <<mainVars, idx, trace, log>>

\* line 173: 60 / tempo raises ZeroDivisionError for tempo = 0
NoteDuration ==
    /\ wpc = "duration"
    /\ wpc' = IF tempo = 0 THEN "crashed" ELSE "loop"
    /\ idx' = 1
    /\ UNCHANGED <<mainVars, trace, log>>

\* time.sleep(note_duration) raises ValueError for a negative duration
SleepRaises == tempo < 0

\* lines 175-176: a separator is one sleep
PlaySilence ==
    /\ wpc = "loop"
    /\ idx <= Len(dynamic_sequence)
    /\ IsSilence(dynamic_sequence[idx])
    /\ IF SleepRaises
       THEN /\ wpc' = "crashed"
            /\ UNCHANGED <<idx, trace>>
       ELSE /\ trace' = Append(trace, SleepEv(tempo))
            /\ idx' = idx + 1
            /\ wpc' = wpc
    /\ UNCHANGED <<mainVars, log>>

\* lines 178-185: label the note, print it, note-on
NoteOn ==
    /\ wpc = "loop"
    /\ idx <= Len(dynamic_sequence)
    /\ ~IsSilence(dynamic_sequence[idx])
    /\ log' = Append(log, <<dynamic_sequence[idx],
                            OctaveLabel(dynamic_sequence[idx], user_sa)>>)
    /\ trace' = Append(trace, NoteOnEv(dynamic_sequence[idx]))
    /\ wpc' = "hold"
    /\ UNCHANGED <<mainVars, idx>>

\* line 186
HoldNote ==
    /\ wpc = "hold"
    /\ IF SleepRaises
       THEN /\ wpc' = "crashed"
            /\ UNCHANGED trace
       ELSE /\ trace' = Append(trace, SleepEv(tempo))
            /\ wpc' = "off"
    /\ UNCHANGED <<mainVars, idx, log>>

\* line 187, and on to the next element
NoteOff ==
    /\ wpc = "off"
    /\ trace' = Append(trace, NoteOffEv(dynamic_sequence[idx]))
    /\ idx' = idx + 1
    /\ wpc' = "loop"
    /\ UNCHANGED <<mainVars, log>>

\* the for loop of line 174 is exhausted: play_sequence_dynamic returns
LoopEnd ==
    /\ wpc = "loop"
    /\ idx > Len(dynamic_sequence)
    /\ wpc' = "returned"
    /\ UNCHANGED <<mainVars, idx, trace, log>>

\* line 196
SynthDelete ==
    /\ wpc = "returned"
    /\ wpc' = "deleted"
    /\ UNCHANGED <<mainVars, idx, trace, log>>

(***************************************************************************)
(* Spec: the whole program, from the prompts of main() on.                 *)
(***************************************************************************)
Unset ==
    /\ raga_name = ""
    /\ sa = ""
    /\ pattern_option = ""
    /\ tempo = 0
    /\ user_sa = 0
    /\ aroha = <<>>
    /\ avaroha = <<>>
    /\ swar_set = <<>>
    /\ midi_values = <<>>
    /\ base_sequence = <<>>
    /\ dynamic_sequence = <<>>
    /\ out = <<>>
    /\ wpc = "unstarted"
    /\ idx = 0
    /\ trace = <<>>
    /\ log = <<>>

Init ==
    /\ pc = "input"
    /\ key_map \in [KeyNames -> SaValues]
    /\ Unset

MainStep ==
    \/ ReadInputs
    \/ LoadData
    \/ ResolveSa
    \/ ValidateRaga
    \/ GetRagaInfo
    \/ CreateSwarMapping
    \/ SelectPattern
    \/ BuildDynamic
    \/ StartPlayback
    \/ Announce

PlayStep ==
    \/ NoteDuration
    \/ PlaySilence
    \/ NoteOn
    \/ HoldNote
    \/ NoteOff
    \/ LoopEnd

Next ==
    \/ MainStep
    \/ SynthSetup
    \/ PlayStep
    \/ SynthDelete

Spec == Init /\ [][Next]_vars

(***************************************************************************)
(* The functions on their own, on every input of a bounded set: main() is  *)
(* entered at the call, with the arguments drawn in the initial state.     *)
(***************************************************************************)
Alphabet == {"S", "R", " ", "-"}      \* characters of a phrase string
Pitches  == {0, 1, 60}                \* 'MIDI Value' entries of a degree list
Elements == {-99, -1, 0, 11, 60, 72}  \* elements of a base / playback sequence

\* create_swar_mapping(raga_info, base_sa)
InitSwar ==
    /\ pc = "swar"
    /\ aroha \in SeqsUpTo(Alphabet, MaxStr)
    /\ avaroha \in SeqsUpTo(Alphabet, MaxStr)
    /\ user_sa \in SaValues
    /\ key_map = [k \in KeyNames |-> 60]
    /\ raga_name = "" /\ sa = "" /\ pattern_option = "" /\ tempo = 0
    /\ swar_set = <<>> /\ midi_values = <<>>
    /\ base_sequence = <<>> /\ dynamic_sequence = <<>>
    /\ out = <<>> /\ wpc = "unstarted" /\ idx = 0 /\ trace = <<>> /\ log = <<>>

NextSwar == CreateSwarMapping

SpecSwar == InitSwar /\ [][NextSwar]_vars

\* pattern_functions[pattern_option](swar_df), then the replication
InitPattern ==
    /\ pc = "pattern"
    /\ midi_values \in SeqsUpTo(Pitches, MaxDeg) \ {<<>>}
    /\ pattern_option \in PatternInputs
    /\ key_map = [k \in KeyNames |-> 60]
    /\ raga_name = "" /\ sa = "" /\ tempo = 0 /\ user_sa = 0
    /\ aroha = <<>> /\ avaroha = <<>> /\ swar_set = <<>>
    /\ base_sequence = <<>> /\ dynamic_sequence = <<>>
    /\ out = <<>> /\ wpc = "unstarted" /\ idx = 0 /\ trace = <<>> /\ log = <<>>

NextPattern ==
    \/ SelectPattern
    \/ BuildDynamic

SpecPattern == InitPattern /\ [][NextPattern]_vars

\* build_dynamic_playback_sequence(base_sequence)
InitReplicate ==
    /\ pc = "build"
    /\ base_sequence \in SeqsUpTo(Elements, MaxSeq)
    /\ key_map = [k \in KeyNames |-> 60]
    /\ raga_name = "" /\ sa = "" /\ pattern_option = "" /\ tempo = 0 /\ user_sa = 0
    /\ aroha = <<>> /\ avaroha = <<>> /\ swar_set = <<>> /\ midi_values = <<>>
    /\ dynamic_sequence = <<>>
    /\ out = <<>> /\ wpc = "unstarted" /\ idx = 0 /\ trace = <<>> /\ log = <<>>

NextReplicate == BuildDynamic

SpecReplicate == InitReplicate /\ [][NextReplicate]_vars

\* play_sequence_dynamic(synth, sequence, tempo, current_sa)
InitPlay ==
    /\ wpc = "duration"
    /\ dynamic_sequence \in SeqsUpTo(Elements, MaxSeq)
    /\ tempo \in TempoInputs
    /\ user_sa \in SaValues
    /\ pc = "idle"
    /\ key_map = [k \in KeyNames |-> 60]
    /\ raga_name = "" /\ sa = "" /\ pattern_option = ""
    /\ aroha = <<>> /\ avaroha = <<>> /\ swar_set = <<>> /\ midi_values = <<>>
    /\ base_sequence = <<>>
    /\ out = <<>> /\ idx = 0 /\ trace = <<>> /\ log = <<>>

NextPlay == PlayStep

SpecPlay == InitPlay /\ [][NextPlay]_vars

(***************************************************************************)
(* Properties.                                                             *)
(***************************************************************************)
Generated == pc \in {"build", "spawn"}

NonNegative(v) == \A i \in 1..Len(v) : v[i] >= 0

\* element at 0-based position p
At0(s, p) == s[p + 1]

\* C1: each of the five pattern functions returns a sequence for every degree list
\* of length n >= 1 and never fails with an out-of-range index.
C1_PatternsNeverRaise ==
    (pattern_option \in PatternNames /\ Len(midi_values) >= 1 /\ pc # "pattern")
        => /\ pc # "crashed"
           /\ Generated

\* C2: build_dynamic_playback_sequence(B) has length 3 * len(B) and is laid out
\* [base, higher, lower]: element i is B[i]; element len(B)+i is B[i]+12 when
\* B[i] >= 0 and B[i] otherwise; element 2*len(B)+i is B[i]-12 when B[i] >= 0 and
\* B[i] otherwise.
C2_ReplicationLayout ==
    pc = "spawn" =>
        LET B == base_sequence
            D == dynamic_sequence
            L == Len(base_sequence)
        IN  /\ Len(D) = 3 * L
            /\ \A i \in 0..(L - 1) :
                  /\ At0(D, i) = At0(B, i)
                  /\ At0(B, i) >= 0 => /\ At0(D, L + i) = At0(B, i) + 12
                                       /\ At0(D, 2 * L + i) = At0(B, i) - 12
                  /\ At0(B, i) < 0  => /\ At0(D, L + i) = At0(B, i)
                                       /\ At0(D, 2 * L + i) = At0(B, i)

C2_Witness ==
    /\ pc = "spawn"
    /\ \E i, j \in 1..Len(base_sequence) : base_sequence[i] = 0 /\ base_sequence[j] < 0

\* the trace the claim C3 describes for a whole sequence: one hold for a negative
\* element; note-on, hold, note-off for a non-negative one
RECURSIVE ExpectedTrace(_, _)
ExpectedTrace(seq, t) ==
    IF seq = <<>> THEN <<>>
    ELSE (IF Head(seq) < 0
          THEN <<SleepEv(t)>>
          ELSE <<NoteOnEv(Head(seq)), SleepEv(t), NoteOffEv(Head(seq))>>)
         \o ExpectedTrace(Tail(seq), t)

\* the pitches with a note-on not yet followed by their note-off
RECURSIVE Sounding(_)
Sounding(tr) ==
    IF tr = <<>> THEN {}
    ELSE LET e      == tr[Len(tr)]
             before == Sounding(SubSeq(tr, 1, Len(tr) - 1))
         IN  IF e[1] = "noteon" THEN before \cup {e[3]}
             ELSE IF e[1] = "noteoff" THEN before \ {e[3]}
             ELSE before

Played == ExpectedTrace(SubSeq(dynamic_sequence, 1, idx - 1), tempo)

TraceInStep ==
    /\ wpc = "loop" => trace = Played
    /\ wpc = "hold" => trace = Played \o <<NoteOnEv(dynamic_sequence[idx])>>
    /\ wpc = "off"  => trace = Played \o <<NoteOnEv(dynamic_sequence[idx]), SleepEv(tempo)>>
    /\ Cardinality(Sounding(trace)) <= 1

ErrorReports ==
    {"ValueError", "Error loading database or Excel file",
     "Invalid Sa note provided. Please check the Excel key mapping.",
     "load_key_mapping failed", "Raga not found in the database.",
     "Raga not found in Excel", "Invalid pattern option provided.", "IndexError"}

\* C4: when the requested pattern name is not a key of pattern_functions, the run
\* of main ends with an error report, the playback worker is never started, no
\* note-on or note-off reaches the synthesizer and no pattern is substituted.
C4_UnknownPatternNeverPlays ==
    (pc # "input" /\ pattern_option \notin PatternNames) =>
        /\ wpc = "unstarted"
        /\ trace = <<>>
        /\ base_sequence = <<>>
        /\ dynamic_sequence = <<>>
        /\ pc \in {"load", "keymap", "validate", "info", "swar", "pattern",
                   "returned", "crashed"}
        /\ pc \in {"returned", "crashed"} => out[Len(out)] \in ErrorReports

C4_Witness ==
    /\ pc = "returned"
    /\ pattern_option \notin PatternNames
    /\ midi_values # <<>>
    /\ out[Len(out)] = "Invalid pattern option provided."

\* C5: create_swar_mapping yields one degree per distinct token after trimming
\* surrounding whitespace from each token, in order of first occurrence over the
\* ascending then the descending tokens, the degree at position i having pitch
\* t + i; tokens that differ only in surrounding whitespace are one degree.
C5_OneDegreePerTrimmedToken ==
    pc = "pattern" =>
        LET tokens   == SwarTokens(aroha, avaroha)
            trimmed  == [i \in 1..Len(tokens) |-> PyStrip(tokens[i])]
            distinct == FromKeys(trimmed, <<>>)
        IN  /\ Len(swar_set) = Len(distinct)
            /\ Len(midi_values) = Len(distinct)
            /\ \A i \in 1..Len(distinct) :
                  /\ PyStrip(swar_set[i]) = distinct[i]
                  /\ midi_values[i] = user_sa + (i - 1)

\* C6: pattern "Aroha & Avroha" returns d[0..n-1], d[0] followed by d[0],
\* d[n-1..0]: length 2n+2, no rest or separator marker, the second half the
\* reverse of the first, starting and ending on d[0].
C6_ArohaAvroha ==
    (pattern_option = "Aroha & Avroha" /\ Generated) =>
        LET d == midi_values
            n == Len(midi_values)
            B == base_sequence
        IN  /\ Len(B) = 2 * n + 2
            /\ \A i \in 0..(n - 1) : At0(B, i) = At0(d, i)
            /\ At0(B, n) = At0(d, 0)
            /\ At0(B, n + 1) = At0(d, 0)
            /\ \A i \in 0..(n - 1) : At0(B, n + 2 + i) = At0(d, n - 1 - i)
            /\ \A i \in 0..(2 * n + 1) : At0(B, i) \notin {-1, -99}
            /\ \A i \in 0..n : At0(B, n + 1 + i) = At0(B, n - i)
            /\ At0(B, 0) = At0(d, 0)
            /\ At0(B, 2 * n + 1) = At0(d, 0)

C6_Witness ==
    /\ pattern_option = "Aroha & Avroha"
    /\ pc = "build"
    /\ Len(midi_values) >= 3
    /\ midi_values[1] # midi_values[2]
    /\ midi_values[2] # midi_values[3]

\* C7: for each pattern and every degree list of non-negative pitches, every
\* element of the base pattern sequence is a negative marker (-1 or -99) or a
\* pitch of the degree list; no marker is non-negative.
C7_MarkersNegativePitchesFromDegrees ==
    (Generated /\ NonNegative(midi_values)) =>
        \A i \in 1..Len(base_sequence) :
            \/ base_sequence[i] \in {-1, -99}
            \/ base_sequence[i] \in Range(midi_values)

\* what C8 derives from pattern_option_3's output: the marker after each 4-note
\* window dropped, one -1 between the ascending and the descending half
WithoutWindowMarkers(p3, n) ==
    LET half(off) == Flatten([g \in 1..(n - 1) |->
                        [j \in 1..4 |-> p3[off + 5 * (g - 1) + j]]])
    IN  half(0) \o <<-1>> \o half(5 * (n - 1))

\* C8: pattern "SA RE GA MA RE GA MA PA" uses the same ascending and descending
\* 4-note windows as pattern "SA RE GA - RE GA MA": its output is that pattern's
\* output with the marker after each window removed and a single -1 between the
\* two halves.
C8_SameWindowsAsPattern3 ==
    (pattern_option = "SA RE GA MA RE GA MA PA" /\ Generated) =>
        base_sequence = WithoutWindowMarkers(pattern_option_3(midi_values), Len(midi_values))

\* C9: for n >= 4 and non-negative pitches, pattern "SA RE SA RE GA" returns 12
\* groups [X, Y, X, Y, Z, -1] in segments of 4, 2 and 6 groups separated by two
\* -99 markers: length 74, -99 at positions 24 and 37, -1 only as the last
\* element of a group; forward group k = 0..5 has X = d[k mod n], Y = d[(k+1)
\* mod n], Z = d[(k+2) mod n]; backward group i = 0..5 has X = d[(-i) mod n],
\* Y = d[(-i-1) mod n], Z = d[(-i-2) mod n].
GroupAt(B, start, X, Y, Z) ==
    /\ At0(B, start) = X
    /\ At0(B, start + 1) = Y
    /\ At0(B, start + 2) = X
    /\ At0(B, start + 3) = Y
    /\ At0(B, start + 4) = Z
    /\ At0(B, start + 5) = -1

C9_GroupStarts == {0, 6, 12, 18, 25, 31, 38, 44, 50, 56, 62, 68}

C9_SaReSaReGa ==
    (pattern_option = "SA RE SA RE GA" /\ Generated /\ Len(midi_values) >= 4
        /\ NonNegative(midi_values)) =>
        LET d == midi_values
            n == Len(midi_values)
            B == base_sequence
        IN  /\ Len(B) = 74
            /\ {p \in 0..73 : At0(B, p) = -99} = {24, 37}
            /\ {p \in 0..73 : At0(B, p) = -1} = {s + 5 : s \in C9_GroupStarts}
            /\ \A k \in 0..5 :
                  GroupAt(B, IF k < 4 THEN 6 * k ELSE 25 + 6 * (k - 4),
                          At0(d, k % n), At0(d, (k + 1) % n), At0(d, (k + 2) % n))
            /\ \A i \in 0..5 :
                  GroupAt(B, 38 + 6 * i,
                          At0(d, (0 - i) % n), At0(d, (0 - i - 1) % n),
                          At0(d, (0 - i - 2) % n))

C9_Witness ==
    /\ pattern_option = "SA RE SA RE GA"
    /\ pc = "build"
    /\ Len(midi_values) = 5
    /\ midi_values[1] # midi_values[5]
    /\ midi_values[4] # midi_values[5]

NoteOns(tr) == Cardinality({i \in 1..Len(tr) : tr[i][1] = "noteon"})

\* C10: octave replication never changes whether a position is a rest: for a base
\* sequence produced by the pattern engine from a tonic >= 0, position i of the
\* higher third and of the lower third is negative exactly when B[i] is, so the
\* playback loop emits a note-on at all three copies of every pitch position and
\* at none of the copies of a rest position.
C10_ReplicationKeepsRests ==
    LET B == base_sequence
        D == dynamic_sequence
        L == Len(base_sequence)
    IN  /\ (pc \in {"spawn", "announce", "idle"} /\ user_sa >= 0) =>
              \A i \in 1..L :
                  /\ (D[L + i] < 0) <=> (B[i] < 0)
                  /\ (D[2 * L + i] < 0) <=> (B[i] < 0)
        /\ (wpc \in {"returned", "deleted"} /\ user_sa >= 0) =>
              NoteOns(trace) = 3 * Cardinality({i \in 1..L : B[i] >= 0})

====
